---------------------------- MODULE Spec2Model ----------------------------
(***************************************************************************)
(* A model of pyEQL's equation-of-state engines (src/src/pyEQL/engines.py): *)
(* IdealEOS and NativeEOS, each with get_activity_coefficient,              *)
(* get_osmotic_coefficient, get_solute_volume and equilibrate.              *)
(*                                                                         *)
(* Units of the model.  Ionic strength is an integer number of thousandths  *)
(* of mol/kg (0.005 mol/kg is 5).  Every other magnitude is an exact        *)
(* rational <<numerator, denominator>> in lowest terms with a positive      *)
(* denominator.  alpha1 and alpha2 are integers in tenths (1.4 is 14, 2 is  *)
(* 20, 12 is 120, 50 is 500).  Volumes are in litres; stored partial molar  *)
(* volumes are in cm3/mol.                                                  *)
(***************************************************************************)
EXTENDS Integers, Sequences, FiniteSets, TLC

VARIABLES
    solution,   \* the Solution object the caller passes to the engine
    db,         \* the parameter store (pyEQL.paramsDB): the keys it holds
    eos,        \* the attributes the engine instances hold (self.__dict__)
    last        \* the outcome of the most recent engine call

vars == <<solution, db, eos, last>>

---------------------------------------------------------------------------
(* Bounds of the model.                                                     *)

\* most solutes (besides the solvent) a solution holds
MaxSolutes == 3
\* most salts the decomposition of a solution lists
MaxSalts == 2
\* largest amount (mol) of one solute
MaxMoles == 2
\* largest concentration the decomposition gives a salt
MaxConc == 2

---------------------------------------------------------------------------
(* Exact rational arithmetic.                                               *)

Abs(n) == IF n < 0 THEN -n ELSE n

RECURSIVE GCD(_, _)
GCD(a, b) == IF b = 0 THEN a ELSE GCD(b, a % b)

\* q[2] # 0 is required
Norm(q) ==
    LET g == GCD(Abs(q[1]), Abs(q[2]))
        s == IF q[2] < 0 THEN -1 ELSE 1
    IN  <<(s * q[1]) \div g, (s * q[2]) \div g>>

Rat(n) == <<n, 1>>
RAdd(p, q) == Norm(<<p[1] * q[2] + q[1] * p[2], p[2] * q[2]>>)
RMul(p, q) == Norm(<<p[1] * q[1], p[2] * q[2]>>)
\* q[1] # 0 is required
RDiv(p, q) == Norm(<<p[1] * q[2], p[2] * q[1]>>)

---------------------------------------------------------------------------
(* The chemistry the engine reads from its collaborators.                   *)

Solvent == "H2O"
Cations == {"Na+", "Mg+2", "Fe+3"}
Anions == {"Cl-", "SO4-2"}
Neutrals == {"CO2"}
Solutes == Cations \cup Anions \cup Neutrals

\* Solute.get_formal_charge()
get_formal_charge(s) ==
    CASE s = "Na+" -> 1
      [] s = "Mg+2" -> 2
      [] s = "Fe+3" -> 3
      [] s = "H+" -> 1
      [] s = "Cl-" -> -1
      [] s = "SO4-2" -> -2
      [] s = "OH-" -> -1
      [] OTHER -> 0

\* A Salt is a cation/anion pair; the solvent's pseudo-salt is HOH.
MakeSalt(c, a) == [cation |-> c, anion |-> a]
HOH == MakeSalt("H+", "OH-")
\* the value of the name Salt before any salt is found (Python's None)
NoSalt == MakeSalt("None", "None")

z_cation(S) == get_formal_charge(S.cation)
z_anion(S) == get_formal_charge(S.anion)
\* the smallest positive stoichiometric coefficients that balance the charges
nu_cation(S) == Abs(z_anion(S)) \div GCD(z_cation(S), Abs(z_anion(S)))
nu_anion(S) == z_cation(S) \div GCD(z_cation(S), Abs(z_anion(S)))

formula(S) ==
    CASE S = HOH -> "HOH"
      [] S = MakeSalt("Na+", "Cl-") -> "NaCl"
      [] S = MakeSalt("Na+", "SO4-2") -> "Na2SO4"
      [] S = MakeSalt("Mg+2", "Cl-") -> "MgCl2"
      [] S = MakeSalt("Mg+2", "SO4-2") -> "MgSO4"
      [] S = MakeSalt("Fe+3", "Cl-") -> "FeCl3"
      [] S = MakeSalt("Fe+3", "SO4-2") -> "Fe2(SO4)3"
      [] OTHER -> "None"

\* Salt.get_effective_molality(ionic_strength): 2 I / (nu+ z+^2 + nu- z-^2),
\* in thousandths of mol/kg like the ionic strength
get_effective_molality(S, I) ==
    Norm(<<2 * I, nu_cation(S) * z_cation(S) * z_cation(S)
                  + nu_anion(S) * z_anion(S) * z_anion(S)>>)


---------------------------------------------------------------------------
(* The parameter store.  db holds the keys <<name, kind>> that               *)
(* db.has_parameter answers True for once db.search_parameters(name) has     *)
(* loaded what the database files hold for name.                             *)

Kinds == {"pitzer_parameters_activity", "pitzer_parameters_volume",
          "partial_molar_volume"}

has_parameter(d, name, kind) == <<name, kind>> \in d

\* a stand-in number for each name the store may hold coefficients for
NameId(name) ==
    CASE name = "NaCl" -> 1
      [] name = "Na2SO4" -> 2
      [] name = "MgCl2" -> 3
      [] name = "MgSO4" -> 4
      [] name = "FeCl3" -> 5
      [] name = "Fe2(SO4)3" -> 6
      [] name = "HOH" -> 7
      [] OTHER -> 8

\* db.get_parameter(name, kind).get_value(): the stored coefficient tuple
get_value(name, kind) ==
    IF kind = "pitzer_parameters_volume"
    THEN [i \in 1..5 |-> 10 * NameId(name) + i]
    ELSE [i \in 1..4 |-> 100 * NameId(name) + i]

\* Solute.get_parameter("partial_molar_volume"), in cm3/mol
partial_molar_volume(s) ==
    CASE s = "Na+" -> -1
      [] s = "Mg+2" -> -21
      [] s = "Fe+3" -> -44
      [] s = "Cl-" -> 18
      [] s = "SO4-2" -> 14
      [] s = "CO2" -> 34
      [] OTHER -> 0

\* the stores a behaviour may start with
StoreA ==
    {<<"NaCl", "pitzer_parameters_activity">>,
     <<"MgSO4", "pitzer_parameters_activity">>,
     <<"Fe2(SO4)3", "pitzer_parameters_activity">>,
     <<"NaCl", "pitzer_parameters_volume">>,
     <<"Fe2(SO4)3", "pitzer_parameters_volume">>,
     <<"Na+", "partial_molar_volume">>,
     <<"Cl-", "partial_molar_volume">>,
     <<"SO4-2", "partial_molar_volume">>,
     <<"CO2", "partial_molar_volume">>}
StoreB ==
    {<<"MgCl2", "pitzer_parameters_activity">>,
     <<"Na2SO4", "pitzer_parameters_activity">>,
     <<"FeCl3", "pitzer_parameters_activity">>,
     <<"MgSO4", "pitzer_parameters_volume">>,
     <<"Na2SO4", "pitzer_parameters_volume">>,
     <<"Mg+2", "partial_molar_volume">>,
     <<"Fe+3", "partial_molar_volume">>,
     <<"Cl-", "partial_molar_volume">>}
Stores == {StoreA, StoreB}

---------------------------------------------------------------------------
(* The correlation library (pyEQL.activity_correction).  Its formulas are   *)
(* outside the engine; each is a fixed function of its arguments.           *)

Temperatures == {25, 30}
\* the temperature a str(solution.temperature) argument stands for
TempOf(t) == CHOOSE x \in Temperatures : ToString(x) = t

get_activity_coefficient_debyehuckel(I, z, T) ==
    Norm(<<1000 - ((3 * I * z * z + TempOf(T)) % 400), 1000>>)

get_activity_coefficient_guntelberg(I, z, T) ==
    Norm(<<990 - ((2 * I * z * z + TempOf(T)) % 400), 1000>>)

get_activity_coefficient_davies(I, z, T) ==
    Norm(<<980 - ((I * z * z + TempOf(T)) % 400), 1000>>)

get_activity_coefficient_pitzer(I, m, a1, a2, b0, b1, b2, c, zc, za, nuc, nua, T) ==
    Norm(<<600 + ((I + 3 * m[1] + 5 * m[2] + 7 * a1 + 11 * a2 + b0 + b1
                   + b2 + c + 13 * zc - 17 * za + 19 * nuc + 23 * nua
                   + TempOf(T)) % 300), 1000>>)

get_osmotic_coefficient_pitzer(I, m, a1, a2, b0, b1, b2, c, zc, za, nuc, nua, T) ==
    Norm(<<800 + ((I + 3 * m + 7 * a1 + 11 * a2 + b0 + b1
                   + b2 + c + 13 * zc - 17 * za + 19 * nuc + 23 * nua
                   + TempOf(T)) % 300), 1000>>)

\* apparent molar volume, in L/mol
get_apparent_volume_pitzer(I, m, a1, a2, b0, b1, b2, c, v0, zc, za, nuc, nua, T) ==
    Norm(<<10 + ((I + 3 * m[1] + 5 * m[2] + 7 * a1 + 11 * a2 + b0 + b1
                  + b2 + c + v0 + 13 * zc - 17 * za + 19 * nuc + 23 * nua
                  + TempOf(T)) % 30), 1000>>)

---------------------------------------------------------------------------
(* The outcome of one engine call: it returns a Quantity (value and unit),  *)
(* returns None, or raises; calls lists the collaborator calls it made.     *)

Call(fn, args) == [fn |-> fn, args |-> args]

Return(q, u, calls) ==
    [outcome |-> "return", value |-> q, unit |-> u, error |-> "", calls |-> calls]
ReturnNone(calls) ==
    [outcome |-> "none", value |-> <<0, 1>>, unit |-> "", error |-> "", calls |-> calls]
Raise(e, calls) ==
    [outcome |-> "raise", value |-> <<0, 1>>, unit |-> "", error |-> e, calls |-> calls]

\* unit("1 dimensionless")
One == <<1, 1>>


---------------------------------------------------------------------------
(* The Solution object, as far as the engine reads it:                      *)
(*   components      species name -> amount (mol; for the solvent, kg)      *)
(*   ionic_strength  in thousandths of mol/kg                               *)
(*   temperature     in degC                                                *)
(*   salt_list       what generate_salt_list / get_salt_list return for the *)
(*                   current composition: the salts in order, each with the *)
(*                   concentration (mol/kg) the decomposition gives it      *)

\* the ionic strengths explored: each threshold of the model selection, the
\* value just above it, and the two ends
IonicStrengths == {0, 5, 6, 100, 101, 500, 501}

SolutesOf(sol) == DOMAIN sol.components \ {Solvent}

\* the salts a decomposition of the solutes S may list
SaltsOf(S) ==
    {MakeSalt(c, a) : c \in S \cap Cations, a \in S \cap Anions} \cup {HOH}

\* A family F of solutions fixes which values are explored: the ionic
\* strengths F.I, the temperatures F.T, the solute amounts F.M, the salt
\* concentrations F.C and the longest salt list F.L.  Every solution holds
\* 1 kg of solvent.

\* the ions the salts of a list are made of, the solvent's own aside
IonsOf(l) ==
    UNION {{l[i].salt.cation, l[i].salt.anion} : i \in {j \in 1..Len(l) : l[j].salt # HOH}}

\* the salts a list names
SaltsIn(l) == {l[i].salt : i \in 1..Len(l)}

\* the solvent alone, as a Solution is before any solute is added
SolventOnly(F) ==
    {[components |-> c, ionic_strength |-> i, temperature |-> t, salt_list |-> <<>>]
       : c \in [{Solvent} -> {1}], i \in F.I, t \in F.T}

\* IdealEOS and NativeEOS define no __init__ and assign no attribute
NoAttributes == <<>>

\* no engine call has been made on the solution as it is now
NoCall ==
    [engine |-> "", op |-> "", solute |-> "", outcome |-> "", value |-> <<0, 1>>,
     unit |-> "", error |-> "", calls |-> <<>>]

\* the record of a call: which engine and operation, and its outcome
Called(engine, op, solute, r) ==
    [engine |-> engine, op |-> op, solute |-> solute, outcome |-> r.outcome,
     value |-> r.value, unit |-> r.unit, error |-> r.error, calls |-> r.calls]

\* The caller changes the solution between engine calls (add_solute,
\* set_amount, set_temperature, ...).  One step changes the ionic strength,
\* the temperature, one amount (adding the species if need be), drops a
\* solute that is in no listed salt, or changes what the decomposition lists:
\* a salt of the solutes more, the last salt less, or another concentration.
Mutate(F) ==
    /\ \/ \E i \in F.I : solution' = [solution EXCEPT !.ionic_strength = i]
       \/ \E t \in F.T : solution' = [solution EXCEPT !.temperature = t]
       \/ \E s \in Solutes, n \in F.M :
              /\ Cardinality(SolutesOf(solution) \cup {s}) <= MaxSolutes
              /\ solution' = [solution EXCEPT !.components =
                                [x \in DOMAIN @ \cup {s} |-> IF x = s THEN n ELSE @[x]]]
       \/ \E s \in SolutesOf(solution) \ IonsOf(solution.salt_list) :
              solution' = [solution EXCEPT !.components =
                             [x \in DOMAIN @ \ {s} |-> @[x]]]
       \/ \E S \in SaltsOf(SolutesOf(solution)) \ SaltsIn(solution.salt_list), c \in F.C :
              /\ Len(solution.salt_list) < F.L
              /\ solution' = [solution EXCEPT !.salt_list =
                                Append(@, [salt |-> S, conc |-> c])]
       \/ /\ solution.salt_list # <<>>
          /\ solution' = [solution EXCEPT !.salt_list = SubSeq(@, 1, Len(@) - 1)]
       \/ \E k \in 1..Len(solution.salt_list), c \in F.C :
              solution' = [solution EXCEPT !.salt_list[k].conc = c]
    /\ solution' # solution
    /\ last' = NoCall
    /\ UNCHANGED <<db, eos>>

---------------------------------------------------------------------------
(* NativeEOS.get_activity_coefficient                                       *)

\* a scan that stops at the first salt that has the solute as an ion
ScanSalts_FirstMatch(salt_list, solute, Salt) ==
    LET found == {i \in 1..Len(salt_list) :
                     \/ solute = salt_list[i].salt.cation
                     \/ solute = salt_list[i].salt.anion}
    IN  IF found = {} THEN Salt
        ELSE salt_list[CHOOSE i \in found : \A j \in found : i <= j].salt

\* lines 212-216: the scan keeps the last salt that has the solute as an ion
RECURSIVE ScanSalts(_, _, _)
ScanSalts(salt_list, solute, Salt) ==
    IF salt_list = <<>> THEN Salt
    ELSE LET item == Head(salt_list).salt
         IN  ScanSalts(Tail(salt_list), solute,
                       IF solute = item.cation \/ solute = item.anion
                       THEN item ELSE Salt)

\* lines 238-247: <<alpha1, alpha2>> of the Pitzer activity call
ActivityAlpha(Salt) ==
    IF nu_cation(Salt) >= 2 /\ nu_anion(Salt) <= -2
    THEN IF nu_cation(Salt) >= 3 \/ nu_anion(Salt) <= -3
         THEN <<20, 500>>
         ELSE <<14, 120>>
    ELSE <<20, 0>>

\* lines 229-279: the Pitzer branch
ActivityPitzer(sol, solute, Salt, calls) ==
    LET param == get_value(formula(Salt), "pitzer_parameters_activity")
        alpha == ActivityAlpha(Salt)
        molality == get_effective_molality(Salt, sol.ionic_strength)
        args == <<sol.ionic_strength, molality, alpha[1], alpha[2],
                  param[1], param[2], param[3], param[4],
                  z_cation(Salt), z_anion(Salt), nu_cation(Salt), nu_anion(Salt),
                  ToString(sol.temperature)>>
        activity_coefficient ==
            get_activity_coefficient_pitzer(
                sol.ionic_strength, molality, alpha[1], alpha[2],
                param[1], param[2], param[3], param[4],
                z_cation(Salt), z_anion(Salt), nu_cation(Salt), nu_anion(Salt),
                ToString(sol.temperature))
    IN  Return(activity_coefficient, "dimensionless",
               calls \o <<Call("db.get_parameter",
                               <<formula(Salt), "pitzer_parameters_activity">>),
                          Call("Salt.get_effective_molality",
                               <<formula(Salt), sol.ionic_strength>>),
                          Call("ac.get_activity_coefficient_pitzer", args),
                          Call("logger.info", <<>>)>>)

\* lines 281-321: the model chosen by ionic strength when the salt has no
\* Pitzer parameters
DebyeHuckelMax == 5
GuntelbergMax == 100
DaviesMax == 500

\* the thresholds taken as exclusive upper bounds
ActivityByIonicStrength_Exclusive(sol, solute, calls) ==
    LET I == sol.ionic_strength
        z == get_formal_charge(solute)
        T == ToString(sol.temperature)
    IN  IF I < DebyeHuckelMax
        THEN Return(get_activity_coefficient_debyehuckel(I, z, T), "dimensionless",
                    calls \o <<Call("logger.info", <<>>),
                               Call("ac.get_activity_coefficient_debyehuckel", <<I, z, T>>)>>)
        ELSE IF I < GuntelbergMax
        THEN Return(get_activity_coefficient_guntelberg(I, z, T), "dimensionless",
                    calls \o <<Call("logger.info", <<>>),
                               Call("ac.get_activity_coefficient_guntelberg", <<I, z, T>>)>>)
        ELSE IF I < DaviesMax
        THEN Return(get_activity_coefficient_davies(I, z, T), "dimensionless",
                    calls \o <<Call("logger.info", <<>>),
                               Call("ac.get_activity_coefficient_davies", <<I, z, T>>)>>)
        ELSE Return(One, "dimensionless", calls \o <<Call("logger.warning", <<>>)>>)

ActivityByIonicStrength(sol, solute, calls) ==
    LET I == sol.ionic_strength
        z == get_formal_charge(solute)
        T == ToString(sol.temperature)
    IN  IF I <= DebyeHuckelMax
        THEN Return(get_activity_coefficient_debyehuckel(I, z, T), "dimensionless",
                    calls \o <<Call("logger.info", <<>>),
                               Call("ac.get_activity_coefficient_debyehuckel", <<I, z, T>>)>>)
        ELSE IF I <= GuntelbergMax
        THEN Return(get_activity_coefficient_guntelberg(I, z, T), "dimensionless",
                    calls \o <<Call("logger.info", <<>>),
                               Call("ac.get_activity_coefficient_guntelberg", <<I, z, T>>)>>)
        ELSE IF I <= DaviesMax
        THEN Return(get_activity_coefficient_davies(I, z, T), "dimensionless",
                    calls \o <<Call("logger.info", <<>>),
                               Call("ac.get_activity_coefficient_davies", <<I, z, T>>)>>)
        ELSE Return(One, "dimensionless", calls \o <<Call("logger.warning", <<>>)>>)

\* the Pitzer model kept for high ionic strength only
Native_get_activity_coefficient_PitzerAboveDavies(sol, d, solute) ==
    IF solute \notin DOMAIN sol.components
    THEN Raise("KeyError", <<>>)
    ELSE LET Salt == ScanSalts(sol.salt_list, solute, NoSalt)
             looked == <<Call("db.search_parameters", <<formula(Salt)>>),
                         Call("db.has_parameter",
                              <<formula(Salt), "pitzer_parameters_activity">>)>>
         IN  IF Salt = NoSalt
             THEN Return(One, "dimensionless", <<Call("logger.warning", <<>>)>>)
             ELSE IF /\ sol.ionic_strength > DaviesMax
                     /\ has_parameter(d, formula(Salt), "pitzer_parameters_activity")
             THEN ActivityPitzer(sol, solute, Salt, looked)
             ELSE ActivityByIonicStrength(sol, solute, looked)

\* lines 208-323
Native_get_activity_coefficient(sol, d, solute) ==
    IF solute \notin DOMAIN sol.components
    THEN \* line 209: solution.components[solute]
         Raise("KeyError", <<>>)
    ELSE LET Salt == ScanSalts(sol.salt_list, solute, NoSalt)
             looked == <<Call("db.search_parameters", <<formula(Salt)>>),
                         Call("db.has_parameter",
                              <<formula(Salt), "pitzer_parameters_activity">>)>>
         IN  IF Salt = NoSalt
             THEN Return(One, "dimensionless", <<Call("logger.warning", <<>>)>>)
             ELSE IF has_parameter(d, formula(Salt), "pitzer_parameters_activity")
             THEN ActivityPitzer(sol, solute, Salt, looked)
             ELSE ActivityByIonicStrength(sol, solute, looked)

\* a read that keeps the salt list of its first call for a solute
NativeGetActivity_CachedSalt ==
    \E solute \in Solutes :
        LET salt_list == IF solute \in DOMAIN eos THEN eos[solute]
                         ELSE solution.salt_list
        IN  /\ last' = Called("Native", "get_activity_coefficient", solute,
                              Native_get_activity_coefficient(
                                  [solution EXCEPT !.salt_list = salt_list], db, solute))
            /\ eos' = [x \in DOMAIN eos \cup {solute} |->
                         IF x = solute THEN salt_list ELSE eos[x]]
            /\ UNCHANGED <<solution, db>>

NativeGetActivity ==
    \E solute \in Solutes :
        /\ last' = Called("Native", "get_activity_coefficient", solute,
                          Native_get_activity_coefficient(solution, db, solute))
        /\ UNCHANGED <<solution, db, eos>>

---------------------------------------------------------------------------
(* NativeEOS.get_osmotic_coefficient                                        *)

\* lines 423-432: <<alpha1, alpha2>> of the Pitzer osmotic call
OsmoticAlpha(item) ==
    IF z_cation(item) >= 2 /\ z_anion(item) <= -2
    THEN IF z_cation(item) >= 3 \/ z_anion(item) <= -3
         THEN <<20, 500>>
         ELSE <<14, 120>>
    ELSE <<20, 0>>

\* lines 420-478: what the loop over salt_list does for a salt it does not
\* skip; acc holds effective_osmotic_sum, molality_sum and the calls so far
OsmoticSalt(sol, d, entry, acc) ==
    LET item == entry.salt
        alpha == OsmoticAlpha(item)
        concentration == entry.conc
        param == get_value(formula(item), "pitzer_parameters_activity")
        args == <<sol.ionic_strength, concentration, alpha[1], alpha[2],
                  param[1], param[2], param[3], param[4],
                  z_cation(item), z_anion(item), nu_cation(item), nu_anion(item),
                  ToString(sol.temperature)>>
        osmotic_coefficient ==
            get_osmotic_coefficient_pitzer(
                sol.ionic_strength, concentration, alpha[1], alpha[2],
                param[1], param[2], param[3], param[4],
                z_cation(item), z_anion(item), nu_cation(item), nu_anion(item),
                ToString(sol.temperature))
        looked == <<Call("db.search_parameters", <<formula(item)>>),
                    Call("db.has_parameter",
                         <<formula(item), "pitzer_parameters_activity">>)>>
    IN  IF has_parameter(d, formula(item), "pitzer_parameters_activity")
        THEN [effective_osmotic_sum |->
                  RAdd(acc.effective_osmotic_sum,
                       RMul(Rat(concentration), osmotic_coefficient)),
              molality_sum |-> acc.molality_sum + concentration,
              calls |-> acc.calls \o looked \o
                        <<Call("db.get_parameter",
                               <<formula(item), "pitzer_parameters_activity">>),
                          Call("ac.get_osmotic_coefficient_pitzer", args),
                          Call("logger.info", <<>>)>>]
        ELSE [effective_osmotic_sum |->
                  RAdd(acc.effective_osmotic_sum, RMul(Rat(concentration), One)),
              molality_sum |-> acc.molality_sum + concentration,
              calls |-> acc.calls \o looked \o <<Call("logger.warning", <<>>)>>]

\* the solvent's pseudo-salt averaged like any other salt
OsmoticStep_CountsSolvent(sol, d, entry, acc) == OsmoticSalt(sol, d, entry, acc)

\* lines 415-478: one pass of the loop over salt_list
OsmoticStep(sol, d, entry, acc) ==
    IF formula(entry.salt) = "HOH"
    THEN acc
    ELSE OsmoticSalt(sol, d, entry, acc)

RECURSIVE OsmoticLoop(_, _, _, _)
OsmoticLoop(sol, d, salt_list, acc) ==
    IF salt_list = <<>> THEN acc
    ELSE OsmoticLoop(sol, d, Tail(salt_list), OsmoticStep(sol, d, Head(salt_list), acc))

\* the quotient of two zeros given as a number that is none
OsmoticQuotient_NotANumber(acc) ==
    IF acc.molality_sum = 0
    THEN Return(<<0, 0>>, "dimensionless", acc.calls)
    ELSE Return(RDiv(acc.effective_osmotic_sum, Rat(acc.molality_sum)),
                "dimensionless", acc.calls)

\* line 480: effective_osmotic_sum / molality_sum
OsmoticQuotient(acc) ==
    IF acc.molality_sum = 0
    THEN Raise("ZeroDivisionError", acc.calls)
    ELSE Return(RDiv(acc.effective_osmotic_sum, Rat(acc.molality_sum)),
                "dimensionless", acc.calls)

\* lines 404-480
Native_get_osmotic_coefficient(sol, d) ==
    OsmoticQuotient(
        OsmoticLoop(sol, d, sol.salt_list,
                    [effective_osmotic_sum |-> Rat(0), molality_sum |-> 0,
                     calls |-> <<>>]))

NativeGetOsmotic ==
    /\ last' = Called("Native", "get_osmotic_coefficient", "",
                      Native_get_osmotic_coefficient(solution, db))
    /\ UNCHANGED <<solution, db, eos>>

---------------------------------------------------------------------------
(* NativeEOS.get_solute_volume                                              *)

\* Solution.get_salt(): the dominant salt of the decomposition (the first of
\* the largest concentration), the solvent's own when it lists none
get_salt(sol) ==
    LET l == sol.salt_list
    IN  IF l = <<>> THEN HOH
        ELSE l[CHOOSE i \in 1..Len(l) :
                 /\ \A j \in 1..Len(l) : l[j].conc <= l[i].conc
                 /\ \A j \in 1..(i - 1) : l[j].conc < l[i].conc].salt

\* Solution.get_amount(s, "mol"): zero for a species the solution lacks
get_moles(sol, s) ==
    IF s \in DOMAIN sol.components THEN sol.components[s] ELSE 0

\* Solution.get_amount(s, "mol/kg"): moles per kg of solvent
get_molality(sol, s) == Norm(<<get_moles(sol, s), sol.components[Solvent]>>)

\* the alphas chosen by the charges, as the osmotic coefficient chooses them
VolumeAlpha_ByCharge(Salt) == OsmoticAlpha(Salt)

\* lines 510-519: <<alpha1, alpha2>> of the Pitzer apparent-volume call
VolumeAlpha(Salt) ==
    IF nu_cation(Salt) >= 2 /\ nu_anion(Salt) >= 2
    THEN IF nu_cation(Salt) >= 3 \/ nu_anion(Salt) >= 3
         THEN <<20, 500>>
         ELSE <<14, 120>>
    ELSE <<20, 0>>

\* lines 498-549: the dominant salt's Pitzer contribution, in L
VolumePitzer(sol, Salt) ==
    LET param == get_value(formula(Salt), "pitzer_parameters_volume")
        molality == RDiv(RAdd(get_molality(sol, Salt.cation),
                              get_molality(sol, Salt.anion)), Rat(2))
        alpha == VolumeAlpha(Salt)
        args == <<sol.ionic_strength, molality, alpha[1], alpha[2],
                  param[1], param[2], param[3], param[4], param[5],
                  z_cation(Salt), z_anion(Salt), nu_cation(Salt), nu_anion(Salt),
                  ToString(sol.temperature)>>
        apparent_vol ==
            get_apparent_volume_pitzer(
                sol.ionic_strength, molality, alpha[1], alpha[2],
                param[1], param[2], param[3], param[4], param[5],
                z_cation(Salt), z_anion(Salt), nu_cation(Salt), nu_anion(Salt),
                ToString(sol.temperature))
    IN  [solute_vol |->
             RDiv(RMul(apparent_vol,
                       RAdd(<<get_moles(sol, Salt.cation), nu_cation(Salt)>>,
                            <<get_moles(sol, Salt.anion), nu_anion(Salt)>>)),
                  Rat(2)),
         calls |-> <<Call("db.get_parameter",
                          <<formula(Salt), "pitzer_parameters_volume">>),
                     Call("ac.get_apparent_volume_pitzer", args),
                     Call("logger.info", <<>>)>>]

\* the dominant salt's ions left out whether or not Pitzer counted them
VolumeStep_SkipsSaltIons(sol, d, Salt, pitzer_calc, item, acc) ==
    IF item \in {"H2O", "HOH"}
    THEN acc
    ELSE IF item \in {Salt.anion, Salt.cation}
    THEN acc
    ELSE IF has_parameter(d, item, "partial_molar_volume")
    THEN [acc EXCEPT !.solute_vol =
              RAdd(@, <<partial_molar_volume(item) * get_moles(sol, item), 1000>>)]
    ELSE acc

\* lines 553-572: one pass of the loop over solution.components (its store
\* probes and log lines are left out of calls, which would otherwise record
\* the order of iteration)
VolumeStep(sol, d, Salt, pitzer_calc, item, acc) ==
    IF item \in {"H2O", "HOH"}
    THEN acc
    ELSE IF pitzer_calc /\ item \in {Salt.anion, Salt.cation}
    THEN acc
    ELSE IF has_parameter(d, item, "partial_molar_volume")
    THEN [acc EXCEPT !.solute_vol =
              RAdd(@, <<partial_molar_volume(item) * get_moles(sol, item), 1000>>)]
    ELSE acc

RECURSIVE VolumeLoop(_, _, _, _, _, _)
VolumeLoop(sol, d, Salt, pitzer_calc, items, acc) ==
    IF items = <<>> THEN acc
    ELSE VolumeLoop(sol, d, Salt, pitzer_calc, Tail(items),
                    VolumeStep(sol, d, Salt, pitzer_calc, Head(items), acc))

\* lines 486-574; order is the order in which solution.components is iterated
Native_get_solute_volume(sol, d, order) ==
    LET Salt == get_salt(sol)
        looked == <<Call("db.search_parameters", <<formula(Salt)>>),
                    Call("db.has_parameter",
                         <<formula(Salt), "pitzer_parameters_volume">>)>>
        pitzer_calc == has_parameter(d, formula(Salt), "pitzer_parameters_volume")
        start == IF pitzer_calc
                 THEN LET v == VolumePitzer(sol, Salt)
                      IN  [solute_vol |-> v.solute_vol, calls |-> looked \o v.calls]
                 ELSE [solute_vol |-> Rat(0), calls |-> looked]
        done == VolumeLoop(sol, d, Salt, pitzer_calc, order, start)
    IN  Return(done.solute_vol, "L", done.calls)

\* the orders in which the components of a solution may be iterated
RECURSIVE IterationOrders(_)
IterationOrders(S) ==
    IF S = {} THEN {<<>>}
    ELSE UNION {{<<x>> \o q : q \in IterationOrders(S \ {x})} : x \in S}

Orders(sol) == IterationOrders(DOMAIN sol.components)

NativeGetVolume ==
    \E order \in Orders(solution) :
        /\ last' = Called("Native", "get_solute_volume", "",
                          Native_get_solute_volume(solution, db, order))
        /\ UNCHANGED <<solution, db, eos>>

---------------------------------------------------------------------------
(* equilibrate, and IdealEOS                                                *)

\* a solve that moves solvent into solutes on every call
Native_equilibrate_Adjusts(sol) ==
    [sol EXCEPT !.components = [x \in DOMAIN @ |-> IF x = Solvent THEN @[x] + 1 ELSE @[x]]]

\* lines 576-579: the body is the docstring alone; the solution after the call
Native_equilibrate(sol) == sol

NativeEquilibrate ==
    /\ solution' = Native_equilibrate(solution)
    /\ last' = Called("Native", "equilibrate", "", ReturnNone(<<>>))
    /\ UNCHANGED <<db, eos>>

\* lines 120-123
Ideal_equilibrate(sol) == sol

IdealEquilibrate ==
    /\ solution' = Ideal_equilibrate(solution)
    /\ last' = Called("Ideal", "equilibrate", "", ReturnNone(<<>>))
    /\ UNCHANGED <<db, eos>>

\* lines 100-105
Ideal_get_activity_coefficient(sol, solute) == Return(One, "dimensionless", <<>>)

IdealGetActivity ==
    \E solute \in Solutes :
        /\ last' = Called("Ideal", "get_activity_coefficient", solute,
                          Ideal_get_activity_coefficient(solution, solute))
        /\ UNCHANGED <<solution, db, eos>>

\* lines 107-112
Ideal_get_osmotic_coefficient(sol) == Return(One, "dimensionless", <<>>)

IdealGetOsmotic ==
    /\ last' = Called("Ideal", "get_osmotic_coefficient", "",
                      Ideal_get_osmotic_coefficient(solution))
    /\ UNCHANGED <<solution, db, eos>>

\* lines 114-118
Ideal_get_solute_volume(sol) == Return(Rat(0), "L", <<>>)

IdealGetVolume ==
    /\ last' = Called("Ideal", "get_solute_volume", "",
                      Ideal_get_solute_volume(solution))
    /\ UNCHANGED <<solution, db, eos>>

---------------------------------------------------------------------------
(* Specifications.  Each explores every operation it names over the         *)
(* solutions of one family; the families differ in which of the quantities  *)
(* an operation reads are varied.                                           *)

InitOver(F) ==
    /\ solution \in SolventOnly(F)
    /\ db \in Stores
    /\ eos = NoAttributes
    /\ last = NoCall

\* every engine call, over small solutions at both temperatures
Family == [I |-> {5, 501}, T |-> Temperatures, M |-> {1}, C |-> {1}, L |-> 1]

Init == InitOver(Family)

Next ==
    \/ Mutate(Family)
    \/ IdealGetActivity
    \/ IdealGetOsmotic
    \/ IdealGetVolume
    \/ IdealEquilibrate
    \/ NativeGetActivity
    \/ NativeGetOsmotic
    \/ NativeGetVolume
    \/ NativeEquilibrate

Spec == Init /\ [][Next]_vars

\* the Pitzer calls and the activity coefficient over every regime of ionic
\* strength
ActivityFamily ==
    [I |-> IonicStrengths, T |-> {25}, M |-> {1}, C |-> {1}, L |-> MaxSalts]

InitActivity == InitOver(ActivityFamily)

NextActivity ==
    \/ Mutate(ActivityFamily)
    \/ NativeGetActivity
    \/ NativeGetOsmotic

SpecActivity == InitActivity /\ [][NextActivity]_vars

\* the osmotic coefficient over the concentrations of the salts
OsmoticFamily ==
    [I |-> {100}, T |-> {25}, M |-> {1}, C |-> 0..MaxConc, L |-> MaxSalts]

InitOsmotic == InitOver(OsmoticFamily)

NextOsmotic ==
    \/ Mutate(OsmoticFamily)
    \/ NativeGetOsmotic

SpecOsmotic == InitOsmotic /\ [][NextOsmotic]_vars

\* the solute volume over the amounts of the components
VolumeFamily ==
    [I |-> {100}, T |-> {25}, M |-> 1..MaxMoles, C |-> {1}, L |-> 1]

InitVolume == InitOver(VolumeFamily)

NextVolume ==
    \/ Mutate(VolumeFamily)
    \/ NativeGetVolume

SpecVolume == InitVolume /\ [][NextVolume]_vars

---------------------------------------------------------------------------
(* What the claims below read off a state.                                  *)

IsCall(engine, op) == last.engine = engine /\ last.op = op

CorrelationFns ==
    {"ac.get_activity_coefficient_debyehuckel",
     "ac.get_activity_coefficient_guntelberg",
     "ac.get_activity_coefficient_davies",
     "ac.get_activity_coefficient_pitzer",
     "ac.get_osmotic_coefficient_pitzer",
     "ac.get_apparent_volume_pitzer"}

StoreFns == {"db.search_parameters", "db.has_parameter", "db.get_parameter"}

\* the collaborator functions the last call called
Fns == {last.calls[i].fn : i \in 1..Len(last.calls)}

\* the calls the last call made of one collaborator function
CallsOf(fn) == SelectSeq(last.calls, LAMBDA c : c.fn = fn)

\* the places of the salt list whose salt has the solute as cation or anion
Matches(solute) ==
    {i \in 1..Len(solution.salt_list) :
        \/ solution.salt_list[i].salt.cation = solute
        \/ solution.salt_list[i].salt.anion = solute}

\* the salt of the last such place
Selected(solute) ==
    solution.salt_list[CHOOSE i \in Matches(solute) :
                          \A j \in Matches(solute) : j <= i].salt

\* a native activity call whose solute has a salt, with or without Pitzer
\* activity parameters for that salt's formula
ActivityOfSalt(pitzer) ==
    /\ IsCall("Native", "get_activity_coefficient")
    /\ Matches(last.solute) # {}
    /\ has_parameter(db, formula(Selected(last.solute)),
                     "pitzer_parameters_activity") = pitzer

---------------------------------------------------------------------------
---------------------------------------------------------------------------
\* C2: when the store holds Pitzer activity parameters for the selected
\* salt's formula, the Pitzer correlation alone is evaluated, at every ionic
\* strength, and it is given the salt's effective molality
\* 2 I / (nu+ z+^2 + nu- z-^2).
C2_PitzerHasPriority ==
    ActivityOfSalt(TRUE) =>
        LET S == Selected(last.solute)
            I == solution.ionic_strength
            pitzer == CallsOf("ac.get_activity_coefficient_pitzer")
            a == pitzer[1].args
        IN  /\ last.outcome = "return"
            /\ last.unit = "dimensionless"
            /\ Fns \cap CorrelationFns = {"ac.get_activity_coefficient_pitzer"}
            /\ Len(pitzer) = 1
            /\ a[1] = I
            /\ a[2][1] * (nu_cation(S) * z_cation(S) * z_cation(S)
                          + nu_anion(S) * z_anion(S) * z_anion(S))
                 = 2 * I * a[2][2]
            /\ <<a[9], a[10], a[11], a[12]>>
                 = <<z_cation(S), z_anion(S), nu_cation(S), nu_anion(S)>>
            /\ last.value = get_activity_coefficient_pitzer(
                   a[1], a[2], a[3], a[4], a[5], a[6], a[7], a[8], a[9],
                   a[10], a[11], a[12], a[13])

\* the Pitzer correlation was called above I = 0.5, where a salt without
\* parameters gets the unit coefficient
C2_Witness ==
    /\ ActivityOfSalt(TRUE)
    /\ solution.ionic_strength > 500
    /\ "ac.get_activity_coefficient_pitzer" \in Fns

---------------------------------------------------------------------------
\* C3: for every solute that no salt of the decomposition has as cation or
\* anion, the call returns exactly 1 dimensionless, raises nothing and
\* consults neither the parameter store nor a correlation model.
C3_NoSaltReturnsOne ==
    (IsCall("Native", "get_activity_coefficient") /\ Matches(last.solute) = {}) =>
        /\ last.outcome = "return"
        /\ last.value = <<1, 1>>
        /\ last.unit = "dimensionless"
        /\ Fns \cap (StoreFns \cup CorrelationFns) = {}

\* the same for the solutes that are components of the solution
C3_NoSaltOfComponentReturnsOne ==
    (/\ IsCall("Native", "get_activity_coefficient")
     /\ Matches(last.solute) = {}
     /\ last.solute \in DOMAIN solution.components) =>
        /\ last.outcome = "return"
        /\ last.value = <<1, 1>>
        /\ last.unit = "dimensionless"
        /\ Fns \cap (StoreFns \cup CorrelationFns) = {}

---------------------------------------------------------------------------
\* the alpha table by charge type: (1.4, 12) for a 2:2 salt, (2, 50) when
\* both charges are at least 2 in magnitude and one is at least 3, (2, 0)
\* otherwise
AlphaByCharge(zc, za) ==
    IF zc = 2 /\ za = -2 THEN <<14, 120>>
    ELSE IF zc >= 2 /\ za <= -2 /\ (zc >= 3 \/ za <= -3) THEN <<20, 500>>
    ELSE <<20, 0>>

\* every call the last engine call made of fn passed the alphas of the table
PassedAlphaByCharge(fn) ==
    \A i \in 1..Len(CallsOf(fn)) :
        LET a == CallsOf(fn)[i].args
        IN  <<a[3], a[4]>> = AlphaByCharge(a[9], a[10])

\* C4: the Pitzer activity call and the Pitzer osmotic call are passed the
\* same (alpha1, alpha2) for a salt, those of the table by charge type.
C4_SameAlphaTable ==
    /\ IsCall("Native", "get_activity_coefficient") =>
           PassedAlphaByCharge("ac.get_activity_coefficient_pitzer")
    /\ IsCall("Native", "get_osmotic_coefficient") =>
           PassedAlphaByCharge("ac.get_osmotic_coefficient_pitzer")

\* the osmotic call alone does follow the table
C4_OsmoticAlphaByCharge ==
    IsCall("Native", "get_osmotic_coefficient") =>
        PassedAlphaByCharge("ac.get_osmotic_coefficient_pitzer")

---------------------------------------------------------------------------
\* the places of the salt list that hold a salt other than the solvent's
Entries == {i \in 1..Len(solution.salt_list) : formula(solution.salt_list[i].salt) # "HOH"}

HasPitzer(i) ==
    has_parameter(db, formula(solution.salt_list[i].salt), "pitzer_parameters_activity")

\* the osmotic coefficient of the salt at place i: Pitzer's, or 1
Phi(i) ==
    LET e == solution.salt_list[i]
        p == get_value(formula(e.salt), "pitzer_parameters_activity")
        alpha == AlphaByCharge(z_cation(e.salt), z_anion(e.salt))
    IN  IF HasPitzer(i)
        THEN get_osmotic_coefficient_pitzer(
                 solution.ionic_strength, e.conc, alpha[1], alpha[2],
                 p[1], p[2], p[3], p[4], z_cation(e.salt), z_anion(e.salt),
                 nu_cation(e.salt), nu_anion(e.salt), ToString(solution.temperature))
        ELSE <<1, 1>>

RECURSIVE Weight(_)
Weight(S) ==
    IF S = {} THEN 0
    ELSE LET i == CHOOSE x \in S : TRUE
         IN  solution.salt_list[i].conc + Weight(S \ {i})

RECURSIVE WeightedPhi(_)
WeightedPhi(S) ==
    IF S = {} THEN <<0, 1>>
    ELSE LET i == CHOOSE x \in S : TRUE
         IN  RAdd(RMul(<<solution.salt_list[i].conc, 1>>, Phi(i)), WeightedPhi(S \ {i}))

\* C5: the osmotic coefficient is sum(c_i phi_i) / sum(c_i) over the salts
\* other than HOH, phi_i being Pitzer's when the salt has Pitzer activity
\* parameters and 1 otherwise; no other correlation is called; two salts of
\* equal concentration give (phi_A + phi_B) / 2; no parameters at all gives 1.
C5_WeightedAverage ==
    IsCall("Native", "get_osmotic_coefficient") =>
        /\ Fns \cap CorrelationFns \subseteq {"ac.get_osmotic_coefficient_pitzer"}
        /\ Len(CallsOf("ac.get_osmotic_coefficient_pitzer"))
             = Cardinality({i \in Entries : HasPitzer(i)})
        /\ Weight(Entries) # 0 =>
             /\ last.outcome = "return"
             /\ last.unit = "dimensionless"
             /\ RMul(last.value, <<Weight(Entries), 1>>) = WeightedPhi(Entries)
             /\ (\A i \in Entries : ~HasPitzer(i)) => last.value = <<1, 1>>
             /\ \A i, j \in Entries :
                  (/\ Entries = {i, j}
                   /\ i # j
                   /\ solution.salt_list[i].conc = solution.salt_list[j].conc)
                  => RMul(last.value, <<2, 1>>) = RAdd(Phi(i), Phi(j))

\* two salts of equal concentration, one with Pitzer parameters and one
\* without
C5_Witness ==
    /\ IsCall("Native", "get_osmotic_coefficient")
    /\ last.outcome = "return"
    /\ Cardinality(Entries) = 2
    /\ \E i, j \in Entries :
         /\ HasPitzer(i)
         /\ ~HasPitzer(j)
         /\ solution.salt_list[i].conc = solution.salt_list[j].conc
         /\ solution.salt_list[i].conc > 0

---------------------------------------------------------------------------
\* C6: NativeEOS.equilibrate ends in a NotImplementedError on every call and
\* never returns normally.
C6_NativeEquilibrateRaises ==
    IsCall("Native", "equilibrate") =>
        /\ last.outcome = "raise"
        /\ last.error = "NotImplementedError"

---------------------------------------------------------------------------
ReadOps == {"get_activity_coefficient", "get_osmotic_coefficient", "get_solute_volume"}

\* what the caller gets from a call
Outcome(r) == <<r.outcome, r.value, r.unit, r.error>>

\* what a read call may give on solution sol with store d
Outcomes(engine, op, solute, sol, d) ==
    CASE engine = "Ideal" /\ op = "get_activity_coefficient" ->
             {Outcome(Ideal_get_activity_coefficient(sol, solute))}
      [] engine = "Ideal" /\ op = "get_osmotic_coefficient" ->
             {Outcome(Ideal_get_osmotic_coefficient(sol))}
      [] engine = "Ideal" /\ op = "get_solute_volume" ->
             {Outcome(Ideal_get_solute_volume(sol))}
      [] engine = "Native" /\ op = "get_activity_coefficient" ->
             {Outcome(Native_get_activity_coefficient(sol, d, solute))}
      [] engine = "Native" /\ op = "get_osmotic_coefficient" ->
             {Outcome(Native_get_osmotic_coefficient(sol, d))}
      [] engine = "Native" /\ op = "get_solute_volume" ->
             {Outcome(Native_get_solute_volume(sol, d, o)) : o \in Orders(sol)}
      [] OTHER -> {}

\* C7: a get_activity_coefficient, get_osmotic_coefficient or
\* get_solute_volume call leaves the solution (composition, ionic strength,
\* temperature) and the store as they were, the engine holds no attribute
\* before or after it, and what it gave is the one outcome that the solution
\* and the store as they are now determine.
C7_ReadsArePure ==
    /\ [](last.op \in ReadOps =>
            LET O == Outcomes(last.engine, last.op, last.solute, solution, db)
            IN  /\ eos = NoAttributes
                /\ Outcome(last) \in O
                /\ \A o \in O : o = Outcome(last))
    /\ [][last'.op \in ReadOps =>
            /\ solution' = solution
            /\ db' = db
            /\ eos' = eos
         ]_vars

\* a native call answered from a composition the caller had changed: the
\* solution starts as the solvent alone, which has no salt to average
C7_Witness ==
    /\ IsCall("Native", "get_osmotic_coefficient")
    /\ last.outcome = "return"
    /\ SolutesOf(solution) # {}

---------------------------------------------------------------------------
\* C8: an equilibrate call of either engine leaves the solution as it was
\* (every amount, the solvent included), so a second call changes nothing
\* more; IdealEOS.equilibrate returns nothing.
C8_EquilibrateIdempotent ==
    [][last'.op = "equilibrate" =>
         /\ solution' = solution
         /\ Native_equilibrate(Native_equilibrate(solution)) = Native_equilibrate(solution)
         /\ Ideal_equilibrate(Ideal_equilibrate(solution)) = Ideal_equilibrate(solution)
         /\ last'.engine = "Ideal" => last'.outcome = "none"
      ]_vars

\* equilibrate was called on a solution that holds solutes
C8_Witness ==
    /\ last.op = "equilibrate"
    /\ SolutesOf(solution) # {}

---------------------------------------------------------------------------
\* whether the dominant salt's Pitzer volume contribution is computed
PitzerVolume == has_parameter(db, formula(get_salt(solution)), "pitzer_parameters_volume")

\* the components whose partial molar volume is added
Counted ==
    {x \in DOMAIN solution.components \ {"H2O", "HOH"} :
        ~(PitzerVolume /\ x \in {get_salt(solution).cation, get_salt(solution).anion})}

\* the sum of partial_molar_volume * moles over the components S, in L, a
\* component without a stored value adding zero
RECURSIVE PartialVolumes(_)
PartialVolumes(S) ==
    IF S = {} THEN <<0, 1>>
    ELSE LET x == CHOOSE y \in S : TRUE
             v == IF has_parameter(db, x, "partial_molar_volume")
                  THEN Norm(<<partial_molar_volume(x) * solution.components[x], 1000>>)
                  ELSE <<0, 1>>
         IN  RAdd(v, PartialVolumes(S \ {x}))

\* the volume the engine gives for the solution with the solute x alone
VolumeOfOnly(x) ==
    Native_get_solute_volume(
        [solution EXCEPT !.components = [y \in {Solvent, x} |-> @[y]]],
        db, <<Solvent, x>>).value

RECURSIVE VolumesOfEach(_)
VolumesOfEach(S) ==
    IF S = {} THEN <<0, 1>>
    ELSE LET x == CHOOSE y \in S : TRUE
         IN  RAdd(VolumeOfOnly(x), VolumesOfEach(S \ {x}))

\* C9: the solute volume is the dominant salt's Pitzer contribution (zero
\* without Pitzer volume parameters) plus partial_molar_volume * moles over
\* the components other than the solvent and, when the Pitzer contribution
\* was computed, other than the salt's two ions; a component with no stored
\* value adds zero and the call returns; without Pitzer parameters the total
\* is the sum of the volumes of the solutes taken one at a time, in whatever
\* order the components are iterated.
C9_VolumeIsAdditive ==
    IsCall("Native", "get_solute_volume") =>
        /\ last.outcome = "return"
        /\ last.unit = "L"
        /\ last.value =
             RAdd(IF PitzerVolume
                  THEN VolumePitzer(solution, get_salt(solution)).solute_vol
                  ELSE <<0, 1>>,
                  PartialVolumes(Counted))
        /\ ~PitzerVolume => last.value = VolumesOfEach(SolutesOf(solution))

\* three solutes, the dominant salt's ions among them, no Pitzer volume
\* parameters for that salt, and one solute with no stored partial molar
\* volume
C9_Witness ==
    /\ IsCall("Native", "get_solute_volume")
    /\ ~PitzerVolume
    /\ get_salt(solution) # HOH
    /\ Cardinality(SolutesOf(solution)) = 3
    /\ \E x \in SolutesOf(solution) : ~has_parameter(db, x, "partial_molar_volume")
    /\ last.value # <<0, 1>>

---------------------------------------------------------------------------
\* C10: when the decomposition lists no salt but the solvent's (an empty
\* list, or HOH alone), get_osmotic_coefficient ends in a zero-divide error
\* and gives no number.
C10_SolventOnlyDividesByZero ==
    (IsCall("Native", "get_osmotic_coefficient") /\ Entries = {}) =>
        /\ last.outcome = "raise"
        /\ last.error = "ZeroDivisionError"

\* the call on a solution whose salt list is HOH alone
C10_Witness ==
    /\ IsCall("Native", "get_osmotic_coefficient")
    /\ Len(solution.salt_list) = 1
    /\ Entries = {}
    /\ last.outcome = "raise"

---------------------------------------------------------------------------
\* the alpha table by stoichiometry: (2, 50) when both coefficients are at
\* least 2 and one is at least 3, (1.4, 12) when both are at least 2 and
\* below 3, (2, 0) otherwise
AlphaByStoichiometry(nuc, nua) ==
    IF nuc >= 2 /\ nua >= 2 /\ (nuc >= 3 \/ nua >= 3) THEN <<20, 500>>
    ELSE IF nuc >= 2 /\ nua >= 2 /\ nuc < 3 /\ nua < 3 THEN <<14, 120>>
    ELSE <<20, 0>>

C11_WitnessHighStoichiometry ==
    /\ IsCall("Native", "get_solute_volume")
    /\ formula(get_salt(solution)) = "Fe2(SO4)3"
    /\ PitzerVolume
    /\ CallsOf("ac.get_apparent_volume_pitzer")[1].args[4] = 500

---------------------------------------------------------------------------
\* the place of the last salt of the list that has the solute as an ion
LastMatch(solute) ==
    CHOOSE i \in Matches(solute) : \A j \in Matches(solute) : j <= i

\* the solution with its salt list cut down to the places P, in order
WithSalts(P) ==
    [solution EXCEPT !.salt_list =
        SelectSeq(@, LAMBDA e : \E i \in P : solution.salt_list[i] = e)]

C12_WitnessOtherSalt ==
    /\ IsCall("Native", "get_activity_coefficient")
    /\ Len(solution.salt_list) = 2
    /\ Matches(last.solute) = {2}
    /\ solution.salt_list[1].salt # HOH
    /\ last.outcome = "return"

=============================================================================
